---- MODULE Spec2Model ----
(***************************************************************************)
(* Model of the Onedot supplier-data pipeline (src/run.py and              *)
(* src/onedot_utils.py): reshape (pivot) -> normalize -> integrate ->      *)
(* write.                                                                  *)
(*                                                                         *)
(* A dataframe is a record [columns, index, rows]: the ordered column      *)
(* labels, the row labels, and one function column -> cell per row.        *)
(* Dataframes live in a heap of objects, so that two names of main can be  *)
(* the same object (normalize_supplier_data returns its argument).         *)
(*                                                                         *)
(* Cells are TLA+ strings, except                                          *)
(*   - ID, an integer (read_json infers int64 for the all-numeric column); *)
(*   - the five textual identity fields, which are sequences of one-       *)
(*     character strings, because the pivot sorts on them and the make     *)
(*     rule works on their characters (str.title, len, str.upper);         *)
(*   - the result of astype, a record [dtype, v].                          *)
(* The pandas behaviour modelled is that of the pandas 1.x line the        *)
(* repository was written for: an inplace fillna on a column selected      *)
(* from the frame writes through to the frame.                             *)
(* Column labels produced by the pivot are assumed distinct from the       *)
(* labels the normalizer creates, so a frame never has two columns of one  *)
(* name.                                                                   *)
(***************************************************************************)
EXTENDS Integers, Sequences, FiniteSets, TLC

(***************************************************************************)
(* Bounds of the model.                                                    *)
(***************************************************************************)
MaxCars == 2
MaxTargetRows == 2

(***************************************************************************)
(* Values.                                                                 *)
(***************************************************************************)
\* a missing cell (numpy.nan)
NaN == "<NaN>"
\* no object / no exception
None == "<None>"

Range(s) == {s[i] : i \in 1..Len(s)}

RECURSIVE Concat(_)
Concat(ss) == IF ss = <<>> THEN <<>> ELSE Head(ss) \o Concat(Tail(ss))

(***************************************************************************)
(* Characters: the code points the pivot's sort compares, and the case     *)
(* mappings str.title / str.upper apply.                                   *)
(***************************************************************************)
UpperLetters ==
    <<"A","B","C","D","E","F","G","H","I","J","K","L","M",
      "N","O","P","Q","R","S","T","U","V","W","X","Y","Z">>
LowerLetters ==
    <<"a","b","c","d","e","f","g","h","i","j","k","l","m",
      "n","o","p","q","r","s","t","u","v","w","x","y","z">>
\* the characters of the model in code point order
CodePointOrder == <<" ", "-", "1", "2">> \o UpperLetters \o LowerLetters

IndexOf(seq, c) == CHOOSE i \in 1..Len(seq) : seq[i] = c
Ord(c) == IndexOf(CodePointOrder, c)
IsUpper(c) == c \in Range(UpperLetters)
IsLower(c) == c \in Range(LowerLetters)
IsCased(c) == IsUpper(c) \/ IsLower(c)
ToUpper(c) == IF IsLower(c) THEN UpperLetters[IndexOf(LowerLetters, c)] ELSE c
ToLower(c) == IF IsUpper(c) THEN LowerLetters[IndexOf(UpperLetters, c)] ELSE c

\* str.upper()
StrUpper(s) == [i \in 1..Len(s) |-> ToUpper(s[i])]
\* str.title(): a cased character is upper-cased when the character before
\* it is not cased, lower-cased otherwise
StrTitle(s) ==
    [i \in 1..Len(s) |->
        IF i > 1 /\ IsCased(s[i-1]) THEN ToLower(s[i]) ELSE ToUpper(s[i])]

\* s < t for Python strings (code point by code point, a prefix is smaller)
RECURSIVE StrLess(_, _)
StrLess(s, t) ==
    IF t = <<>> THEN FALSE
    ELSE IF s = <<>> THEN TRUE
    ELSE IF Ord(Head(s)) # Ord(Head(t)) THEN Ord(Head(s)) < Ord(Head(t))
    ELSE StrLess(Tail(s), Tail(t))

(***************************************************************************)
(* The supplier file: the makes, identities and attribute values the       *)
(* model reads.  S_x is the Python string x as a sequence of characters.   *)
(***************************************************************************)
S_VW == <<"V","W">>
S_bmw == <<"b","m","w">>
S_mercedes_benz == <<"m","e","r","c","e","d","e","s","-","b","e","n","z">>
S_Mini == <<"M","i","n","i">>
S_Mclaren == <<"M","c","l","a","r","e","n">>
S_BMW_ALPINA == <<"B","M","W","-","A","L","P","I","N","A">>
S_RUF == <<"R","U","F">>
S_HARLEY_DAVIDSON == <<"H","A","R","L","E","Y","-","D","A","V","I","D","S","O","N">>
S_DS_AUTOMOBILES == <<"D","S"," ","A","U","T","O","M","O","B","I","L","E","S">>
S_OPEL == <<"O","P","E","L">>
S_Bmw_Alpina == <<"B","m","w","-","A","l","p","i","n","a">>
S_Alpina == <<"A","l","p","i","n","a">>
S_McLaren == <<"M","c","L","a","r","e","n">>
S_MINI == <<"M","I","N","I">>
S_Ruf == <<"R","u","f">>
S_Mercedes_Benz == <<"M","e","r","c","e","d","e","s","-","B","e","n","z">>
S_BMW == <<"B","M","W">>
S_T1 == <<"T","1">>
S_T2 == <<"T","2">>

\* the raw makes a supplier record can carry
Makes ==
    <<S_VW, S_bmw, S_mercedes_benz, S_Mini, S_Mclaren, S_BMW_ALPINA, S_RUF,
      S_HARLEY_DAVIDSON, S_DS_AUTOMOBILES, S_OPEL>>

\* pivot index (src/onedot_utils.py:71-73)
IdentityFields ==
    <<"ID", "MakeText", "TypeName", "TypeNameFull", "ModelText", "ModelTypeText">>

\* the attribute names of the file, in the order a car's records are written
AttrFileOrder ==
    <<"Km", "BodyTypeText", "City", "BodyColorText", "ConditionTypeText",
      "FirstRegYear", "ConsumptionRatingText", "FirstRegMonth">>
AttrNames == Range(AttrFileOrder)
\* the same names as Python sorts them
AttrSortedOrder ==
    <<"BodyColorText", "BodyTypeText", "City", "ConditionTypeText",
      "ConsumptionRatingText", "FirstRegMonth", "FirstRegYear", "Km">>

\* the attribute values of an ordinary car
BaseAttrs ==
    [a \in AttrNames |->
        CASE a = "BodyTypeText" -> "Limousine"
          [] a = "BodyColorText" -> "blau"
          [] a = "ConditionTypeText" -> "Occasion"
          [] a = "City" -> "Zuzwil"
          [] a = "FirstRegYear" -> "2010"
          [] a = "Km" -> "5000"
          [] a = "FirstRegMonth" -> "6"
          [] a = "ConsumptionRatingText" -> "null"]
\* the other values an attribute takes, as <<attribute, value>>
AltValues ==
    <<<<"BodyTypeText", "Sattelschlepper">>, <<"BodyTypeText", "Coupé">>,
      <<"BodyTypeText", "Kleinwagen">>,
      <<"BodyColorText", "rot mét.">>, <<"BodyColorText", "anthrazit">>,
      <<"ConditionTypeText", "Neu">>, <<"ConditionTypeText", "Unfallwagen">>,
      <<"City", "Basel">>, <<"City", "Sursee">>,
      <<"FirstRegYear", "null">>,
      <<"Km", "abc">>,
      <<"FirstRegMonth", "null">>,
      <<"ConsumptionRatingText", "G">>>>

Identity(id, make, typeName) ==
    [f \in Range(IdentityFields) |->
        CASE f = "ID" -> id
          [] f = "MakeText" -> make
          [] f = "TypeName" -> typeName
          [] OTHER -> S_T1]

\* a car of the file: its identity and the attributes it has records for
Car(identity, attrs) == [id |-> identity, attrs |-> attrs]
Without(attrs, a) == [b \in (DOMAIN attrs) \ {a} |-> attrs[b]]
\* the cars a file is made of.  A car differs from the ordinary car (ID 1,
\* make VW, all attributes ordinary) in one place: its ID, its make, its
\* type name, the value of one attribute, or one attribute it has no record
\* for; one more car is a HARLEY-DAVIDSON with the body type Sattelschlepper.
\* Two cars that differ from the ordinary car in an attribute have one
\* identity.
CarCatalogue ==
    <<Car(Identity(2, S_VW, S_T1), BaseAttrs),
      Car(Identity(1, S_HARLEY_DAVIDSON, S_T2),
          [BaseAttrs EXCEPT !["BodyTypeText"] = "Sattelschlepper"])>>
    \o [i \in 1..Len(Makes) |-> Car(Identity(1, Makes[i], S_T1), BaseAttrs)]
    \o [i \in 1..Len(AltValues) |->
           Car(Identity(1, S_VW, S_T1),
               [BaseAttrs EXCEPT ![AltValues[i][1]] = AltValues[i][2]])]
    \o [i \in 1..Len(AttrFileOrder) |->
           Car(Identity(1, S_VW, S_T1), Without(BaseAttrs, AttrFileOrder[i]))]
    \o <<Car(Identity(3, S_VW, S_T1), BaseAttrs)>>

\* one line of the JSON file (one attribute of one car)
LongRecord(identity, a, v) ==
    identity @@ ("Attribute Names" :> a) @@ ("Attribute Values" :> v)
\* the lines of one car
CarRecords(car) ==
    LET present == SelectSeq(AttrFileOrder, LAMBDA a : a \in DOMAIN car.attrs)
    IN [i \in 1..Len(present) |-> LongRecord(car.id, present[i], car.attrs[present[i]])]
\* the selections of 1 to n cars of the catalogue, in catalogue order
RECURSIVE CarChoices(_)
CarChoices(n) ==
    IF n = 0 THEN {<<>>}
    ELSE LET shorter == CarChoices(n - 1)
         IN shorter \cup
            {Append(l, c) : l \in {x \in shorter : Len(x) = n - 1},
                            c \in 1..Len(CarCatalogue)} 
\* the files: the lines of up to MaxCars cars, car after car
SupplierFiles ==
    {Concat([i \in 1..Len(l) |-> CarRecords(CarCatalogue[l[i]])]) :
        l \in {x \in CarChoices(MaxCars) :
                 /\ x # <<>>
                 /\ \A i \in 1..(Len(x) - 1) : x[i] <= x[i + 1]}}

(***************************************************************************)
(* Dataframes.                                                             *)
(***************************************************************************)
DataFrame(columns, index, rows) ==
    [columns |-> columns, index |-> index, rows |-> rows]
\* RangeIndex(n): the labels 0 .. n-1
RangeIndex(n) == [i \in 1..n |-> i - 1]
HasColumn(df, c) == c \in Range(df.columns)
\* a scalar for every row of the frame
Broadcast(df, v) == [i \in 1..Len(df.rows) |-> v]
\* df[c] == v: the rows whose cell is v
Equals(df, c, v) == [i \in 1..Len(df.rows) |-> df.rows[i][c] = v]
\* df[c] = values: the column gets the cells given; a new column comes last
SetColumn(df, c, values) ==
    DataFrame(IF HasColumn(df, c) THEN df.columns ELSE Append(df.columns, c),
              df.index,
              [i \in 1..Len(df.rows) |->
                  [d \in (DOMAIN df.rows[i]) \cup {c} |->
                      IF d = c THEN values[i] ELSE df.rows[i][d]]])
\* df.loc[mask, c] = v
LocSet(df, mask, c, v) ==
    SetColumn(df, c, [i \in 1..Len(df.rows) |-> IF mask[i] THEN v ELSE df.rows[i][c]])
\* df.rename(columns={old: new}, inplace=True); a label the frame does not
\* have is ignored
Rename(df, old, new) ==
    IF ~HasColumn(df, old) THEN df
    ELSE DataFrame([i \in 1..Len(df.columns) |->
                       IF df.columns[i] = old THEN new ELSE df.columns[i]],
                   df.index,
                   [i \in 1..Len(df.rows) |->
                       [d \in ((DOMAIN df.rows[i]) \ {old}) \cup {new} |->
                           IF d = new THEN df.rows[i][old] ELSE df.rows[i][d]]])

(***************************************************************************)
(* preprocessing_supplier_data: the pivot.                                 *)
(***************************************************************************)
\* the index key of a line
KeyOf(rec) == [f \in Range(IdentityFields) |-> rec[f]]
\* k1 sorts before k2: field by field in the order of the index levels, ID
\* as a number and the others as strings
RECURSIVE KeyLessFrom(_, _, _)
KeyLessFrom(k1, k2, i) ==
    IF i > Len(IdentityFields) THEN FALSE
    ELSE LET f == IdentityFields[i]
         IN IF k1[f] = k2[f] THEN KeyLessFrom(k1, k2, i + 1)
            ELSE IF f = "ID" THEN k1[f] < k2[f]
            ELSE StrLess(k1[f], k2[f])
KeyLess(k1, k2) == KeyLessFrom(k1, k2, 1)
RECURSIVE SortedKeys(_)
SortedKeys(keys) ==
    IF keys = {} THEN <<>>
    ELSE LET first == CHOOSE k \in keys : \A o \in keys \ {k} : KeyLess(k, o)
         IN <<first>> \o SortedKeys(keys \ {first})
\* (variant) the pivot indexed by ID alone: one key per ID
PivotKeysByID(car_df) ==
    {KeyOf(car_df[CHOOSE i \in 1..Len(car_df) : car_df[i]["ID"] = id]) :
        id \in {car_df[j]["ID"] : j \in 1..Len(car_df)}}
\* the index keys of the pivoted frame
PivotKeys(car_df) == {KeyOf(car_df[i]) : i \in 1..Len(car_df)}
\* (variant) the attribute columns taken from the first car of the file only
PivotColumnsOfFirst(car_df) ==
    LET names == {car_df[i]["Attribute Names"] :
                    i \in {j \in 1..Len(car_df) : KeyOf(car_df[j]) = KeyOf(car_df[1])}}
    IN SelectSeq(AttrSortedOrder, LAMBDA a : a \in names)
\* the attribute columns of the pivoted frame, after droplevel(0, axis=1)
PivotColumns(car_df) ==
    LET names == {car_df[i]["Attribute Names"] : i \in 1..Len(car_df)}
    IN SelectSeq(AttrSortedOrder, LAMBDA a : a \in names)
\* DataFrame.pivot refuses an index/column pair that occurs twice
HasDuplicateEntries(car_df) ==
    \E i, j \in 1..Len(car_df) :
        /\ i < j
        /\ KeyOf(car_df[i]) = KeyOf(car_df[j])
        /\ car_df[i]["Attribute Names"] = car_df[j]["Attribute Names"]
\* the cell of key k under attribute a: the value of the line, or missing
PivotCell(car_df, k, a) ==
    IF \E i \in 1..Len(car_df) : KeyOf(car_df[i]) = k /\ car_df[i]["Attribute Names"] = a
    THEN LET i == CHOOSE i \in 1..Len(car_df) :
                     KeyOf(car_df[i]) = k /\ car_df[i]["Attribute Names"] = a
         IN car_df[i]["Attribute Values"]
    ELSE NaN
\* pivot, droplevel and reset_index (src/onedot_utils.py:71-79)
Pivot(car_df) ==
    LET keys == SortedKeys(PivotKeys(car_df))
        attrs == PivotColumns(car_df)
    IN DataFrame(IdentityFields \o attrs,
                 RangeIndex(Len(keys)),
                 [i \in 1..Len(keys) |->
                     [c \in Range(IdentityFields) \cup Range(attrs) |->
                         IF c \in Range(IdentityFields) THEN keys[i][c]
                         ELSE PivotCell(car_df, keys[i], c)]])

(***************************************************************************)
(* normalize_supplier_data.  The function works on the frame it is given,  *)
(* statement by statement; an exception leaves the frame as the statements *)
(* before it made it.  A rule maps r = [df, err], the frame as the         *)
(* statements before the rule left it and the exception raised so far, to  *)
(* the same after the rule; a rule after one that raised does nothing.     *)
(***************************************************************************)
Ok(df) == [df |-> df, err |-> None]
Raise(df, e) == [df |-> df, err |-> e]

\* Series.map(dict): a value that is no key of the dict becomes missing
MapValue(dict, v) == IF v \in DOMAIN dict THEN dict[v] ELSE NaN
\* df[c] = df[c].map(dict)
MapColumn(df, c, dict) ==
    SetColumn(df, c, [i \in 1..Len(df.rows) |-> MapValue(dict, df.rows[i][c])])
\* df[c].fillna(value=v, inplace=True)
FillNa(df, c, v) ==
    SetColumn(df, c, [i \in 1..Len(df.rows) |->
                        IF df.rows[i][c] = NaN THEN v ELSE df.rows[i][c]])

bodyTypeText_to_carType ==
    ("Limousine" :> "Custom") @@ ("Kombi" :> "Station Wagon") @@ ("Coupé" :> "Coupé")
    @@ ("SUV / Geländewagen" :> "SUV") @@ ("Cabriolet" :> "Convertible / Roadster")
    @@ ("Pick-up" :> "SUV")

bodyColorText_to_color ==
    ("beige" :> "Beige") @@ ("beige mét." :> "Beige")
    @@ ("blau" :> "Blue") @@ ("blau mét." :> "Blue")
    @@ ("braun" :> "Brown") @@ ("braun mét." :> "Brown")
    @@ ("gelb" :> "Yellow") @@ ("gelb mét." :> "Yellow")
    @@ ("gold" :> "Gold") @@ ("gold mét." :> "Gold")
    @@ ("grau" :> "Gray") @@ ("grau mét." :> "Gray")
    @@ ("grün" :> "Green") @@ ("grün mét." :> "Green")
    @@ ("orange" :> "Orange") @@ ("orange mét." :> "Orange")
    @@ ("rot" :> "Red") @@ ("rot mét." :> "Red")
    @@ ("schwarz" :> "Black") @@ ("schwarz mét." :> "Black")
    @@ ("silber" :> "Silver") @@ ("silber mét." :> "Silver")
    @@ ("violett mét." :> "Purple")
    @@ ("weiss" :> "White") @@ ("weiss mét." :> "White")

conditionTypeText_to_condition ==
    ("Occasion" :> "Used") @@ ("Oldtimer" :> "Used") @@ ("Neu" :> "New")
    @@ ("Vorführmodell" :> "Used")

\* (variant) type decided after the body type was remapped
TypeRuleAfterRemap(r) ==
    IF r.err # None THEN r ELSE
    LET df == r.df IN
    LET d1 == SetColumn(df, "type", Broadcast(df, "car"))
    IN IF ~HasColumn(d1, "MakeText") THEN Raise(d1, "KeyError")
       ELSE LET d2 == LocSet(d1, Equals(d1, "MakeText", S_HARLEY_DAVIDSON),
                             "type", "Other")
            IN IF ~HasColumn(d2, "BodyTypeText") THEN Raise(d2, "KeyError")
               ELSE Ok(LocSet(d2,
                              Equals(MapColumn(d2, "BodyTypeText", bodyTypeText_to_carType),
                                     "BodyTypeText", "Sattelschlepper"),
                              "type", "Other"))
\* 15) type (src/onedot_utils.py:127-130)
TypeRule(r) ==
    IF r.err # None THEN r ELSE
    LET df == r.df IN
    LET d1 == SetColumn(df, "type", Broadcast(df, "car"))
    IN IF ~HasColumn(d1, "MakeText") THEN Raise(d1, "KeyError")
       ELSE LET d2 == LocSet(d1, Equals(d1, "MakeText", S_HARLEY_DAVIDSON),
                             "type", "Other")
            IN IF ~HasColumn(d2, "BodyTypeText") THEN Raise(d2, "KeyError")
               ELSE Ok(LocSet(d2, Equals(d2, "BodyTypeText", "Sattelschlepper"),
                              "type", "Other"))

\* (variant) carType without the fillna
CarTypeRuleNoFill(r) ==
    IF r.err # None THEN r ELSE
    LET df == r.df IN
    IF ~HasColumn(df, "BodyTypeText") THEN Raise(df, "KeyError")
    ELSE Ok(Rename(MapColumn(df, "BodyTypeText", bodyTypeText_to_carType),
                   "BodyTypeText", "carType"))
\* 1) carType (src/onedot_utils.py:156-161)
CarTypeRule(r) ==
    IF r.err # None THEN r ELSE
    LET df == r.df IN
    IF ~HasColumn(df, "BodyTypeText") THEN Raise(df, "KeyError")
    ELSE Ok(Rename(FillNa(MapColumn(df, "BodyTypeText", bodyTypeText_to_carType),
                          "BodyTypeText", "Other"),
                   "BodyTypeText", "carType"))

\* 2) color (src/onedot_utils.py:189-194)
ColorRule(r) ==
    IF r.err # None THEN r ELSE
    LET df == r.df IN
    IF ~HasColumn(df, "BodyColorText") THEN Raise(df, "KeyError")
    ELSE Ok(Rename(FillNa(MapColumn(df, "BodyColorText", bodyColorText_to_color),
                          "BodyColorText", "Other"),
                   "BodyColorText", "color"))

\* (variant) condition with the fillna of line 215 in force
ConditionRuleFillOther(r) ==
    IF r.err # None THEN r ELSE
    LET df == r.df IN
    IF ~HasColumn(df, "ConditionTypeText") THEN Raise(df, "KeyError")
    ELSE Ok(Rename(FillNa(MapColumn(df, "ConditionTypeText", conditionTypeText_to_condition),
                          "ConditionTypeText", "Other"),
                   "ConditionTypeText", "condition"))
\* 3) condition (src/onedot_utils.py:213-218); the fillna is commented out
ConditionRule(r) ==
    IF r.err # None THEN r ELSE
    LET df == r.df IN
    IF ~HasColumn(df, "ConditionTypeText") THEN Raise(df, "KeyError")
    ELSE Ok(Rename(MapColumn(df, "ConditionTypeText", conditionTypeText_to_condition),
                   "ConditionTypeText", "condition"))

\* 4) currency, 5) drive, 6) city, 7) country (src/onedot_utils.py:225-239)
ConstantsRule(r) ==
    IF r.err # None THEN r ELSE
    LET df == r.df IN
    LET d1 == SetColumn(df, "currency", Broadcast(df, "CHF"))
        d2 == SetColumn(d1, "drive", Broadcast(df, NaN))
        d3 == Rename(d2, "City", "city")
    IN Ok(SetColumn(d3, "country", Broadcast(df, "CH")))

\* the length below which a make is written in capitals
ShortMakeLength == 4

\* (variant) capitals for a name of up to ShortMakeLength characters
NormalizeMakeOffByOne(raw) ==
    LET titled == StrTitle(raw)
        cased == IF Len(titled) <= ShortMakeLength THEN StrUpper(titled) ELSE titled
        m1 == IF cased = S_Bmw_Alpina THEN S_Alpina ELSE cased
        m2 == IF m1 = S_Mclaren THEN S_McLaren ELSE m1
        m3 == IF m2 = S_Mini THEN S_MINI ELSE m2
    IN IF m3 = S_RUF THEN S_Ruf ELSE m3
\* the make of one row (src/onedot_utils.py:244-266): title case, capitals
\* for a short name, then the four literal replacements in turn
NormalizeMake(raw) ==
    LET titled == StrTitle(raw)
        cased == IF Len(titled) < ShortMakeLength THEN StrUpper(titled) ELSE titled
        m1 == IF cased = S_Bmw_Alpina THEN S_Alpina ELSE cased
        m2 == IF m1 = S_Mclaren THEN S_McLaren ELSE m1
        m3 == IF m2 = S_Mini THEN S_MINI ELSE m2
    IN IF m3 = S_RUF THEN S_Ruf ELSE m3

\* 8) make (src/onedot_utils.py:244-269)
MakeRule(r) ==
    IF r.err # None THEN r ELSE
    LET df == r.df IN
    IF ~HasColumn(df, "MakeText") THEN Raise(df, "KeyError")
    ELSE Ok(Rename(SetColumn(df, "MakeText",
                             [i \in 1..Len(df.rows) |-> NormalizeMake(df.rows[i]["MakeText"])]),
                   "MakeText", "make"))

\* the decimal numerals of the file and the numbers they denote
Numerals ==
    ("2010" :> 2010) @@ ("5000" :> 5000) @@ ("6" :> 6)
\* int(v) / float(v) succeed on a numeral; float also takes a missing cell
ParsesAs(v, dtype) == v \in DOMAIN Numerals \/ (dtype = "float64" /\ v = NaN)
Parse(v, dtype) == IF v = NaN THEN NaN ELSE [dtype |-> dtype, v |-> Numerals[v]]
\* (variant) a conversion that drops the rows it cannot convert
AsTypeDropInvalid(df, c, dtype) ==
    IF ~HasColumn(df, c) THEN Raise(df, "KeyError")
    ELSE LET keep == {i \in 1..Len(df.rows) : ParsesAs(df.rows[i][c], dtype)}
             pick(seq) == LET F[i \in 0..Len(seq)] ==
                                IF i = 0 THEN <<>>
                                ELSE IF i \in keep THEN Append(F[i - 1], seq[i])
                                ELSE F[i - 1]
                          IN F[Len(seq)]
             kept == DataFrame(df.columns, pick(df.index), pick(df.rows))
         IN Ok(SetColumn(kept, c,
                         [i \in 1..Len(kept.rows) |-> Parse(kept.rows[i][c], dtype)]))
\* df[c] = df[c].astype(dtype): every cell converts or the statement raises
AsType(df, c, dtype) ==
    IF ~HasColumn(df, c) THEN Raise(df, "KeyError")
    ELSE IF \E i \in 1..Len(df.rows) : ~ParsesAs(df.rows[i][c], dtype)
         THEN Raise(df, "ValueError")
    ELSE Ok(SetColumn(df, c, [i \in 1..Len(df.rows) |-> Parse(df.rows[i][c], dtype)]))

\* 9) manufacture_year (src/onedot_utils.py:273-276)
YearRule(r) ==
    IF r.err # None THEN r ELSE
    LET df == r.df IN
    LET converted == AsType(df, "FirstRegYear", "int64")
    IN IF converted.err # None THEN converted
       ELSE Ok(Rename(converted.df, "FirstRegYear", "manufacture_year"))

\* 10) mileage ... 14) price_on_request (src/onedot_utils.py:280-298)
MileageRule(r) ==
    IF r.err # None THEN r ELSE
    LET df == r.df IN
    LET converted == AsType(df, "Km", "float64")
    IN IF converted.err # None THEN converted
       ELSE LET d1 == Rename(converted.df, "Km", "mileage")
                d2 == SetColumn(d1, "mileage_unit", Broadcast(df, "kilometer"))
                d3 == Rename(d2, "ModelText", "model")
                d4 == Rename(d3, "ModelTypeText", "model_variant")
            IN Ok(SetColumn(d4, "price_on_request", Broadcast(df, TRUE)))

\* 16) zip (src/onedot_utils.py:306-310)
ZipRule(r) ==
    IF r.err # None THEN r ELSE
    LET df == r.df IN
    LET d1 == SetColumn(df, "zip", Broadcast(df, "St. Gallen"))
    IN IF ~HasColumn(d1, "city") THEN Raise(d1, "KeyError")
       ELSE LET d2 == LocSet(d1, Equals(d1, "city", "Basel"), "zip", "Basel-Stadt")
                d3 == LocSet(d2, Equals(d2, "city", "Porrentrury"), "zip", "Jura")
                d4 == LocSet(d3, Equals(d3, "city", "Safenwil"), "zip", "Aargau")
            IN Ok(LocSet(d4, Equals(d4, "city", "Sursee"), "zip", "Lucerne"))

\* 17) manufacture_month (src/onedot_utils.py:315-319)
MonthRule(r) ==
    IF r.err # None THEN r ELSE
    LET df == r.df IN
    LET converted == AsType(df, "FirstRegMonth", "float64")
    IN IF converted.err # None THEN converted
       ELSE Ok(Rename(converted.df, "FirstRegMonth", "manufacture_month"))

\* 18) fuel_consumption_unit (src/onedot_utils.py:325-327)
FuelUnitRule(r) ==
    IF r.err # None THEN r ELSE
    LET df == r.df IN
    LET d1 == SetColumn(df, "fuel_consumption_unit", Broadcast(df, "l_km_consumption"))
    IN IF ~HasColumn(d1, "ConsumptionRatingText") THEN Raise(d1, "KeyError")
       ELSE Ok(LocSet(d1, Equals(d1, "ConsumptionRatingText", "null"),
                      "fuel_consumption_unit", NaN))

\* the body of normalize_supplier_data (src/onedot_utils.py:127-330), the
\* type rule first and the fuel unit rule last: the frame as the function
\* leaves it, and the exception that ended it, if any
Normalize(df) ==
    FuelUnitRule(
    MonthRule(
    ZipRule(
    MileageRule(
    YearRule(
    MakeRule(
    ConstantsRule(
    ConditionRule(
    ColorRule(
    CarTypeRule(
    TypeRule(Ok(df))))))))))))

(***************************************************************************)
(* integrate_supplier_data.                                                *)
(***************************************************************************)
\* df[names]: the named columns in the order of names; a label the frame
\* does not have raises KeyError
Project(df, names) ==
    IF \E i \in 1..Len(names) : ~HasColumn(df, names[i]) THEN Raise(df, "KeyError")
    ELSE Ok(DataFrame(names, df.index,
                      [i \in 1..Len(df.rows) |-> [c \in Range(names) |-> df.rows[i][c]]]))
\* (variant) pd.concat without ignore_index: each frame keeps its row labels
ConcatFramesKeepIndex(top, bottom) ==
    LET columns == top.columns
                   \o SelectSeq(bottom.columns, LAMBDA c : ~HasColumn(top, c))
        widen(row) == [c \in Range(columns) |-> IF c \in DOMAIN row THEN row[c] ELSE NaN]
        rows == [i \in 1..Len(top.rows) |-> widen(top.rows[i])]
                \o [i \in 1..Len(bottom.rows) |-> widen(bottom.rows[i])]
    IN DataFrame(columns, top.index \o bottom.index, rows)
\* pd.concat([top, bottom], ignore_index=True): the columns of top, then the
\* columns only bottom has; the rows of top, then those of bottom; a cell of
\* a column a frame lacks is missing; the index is renumbered
ConcatFrames(top, bottom) ==
    LET columns == top.columns
                   \o SelectSeq(bottom.columns, LAMBDA c : ~HasColumn(top, c))
        widen(row) == [c \in Range(columns) |-> IF c \in DOMAIN row THEN row[c] ELSE NaN]
        rows == [i \in 1..Len(top.rows) |-> widen(top.rows[i])]
                \o [i \in 1..Len(bottom.rows) |-> widen(bottom.rows[i])]
    IN DataFrame(columns, RangeIndex(Len(rows)), rows)
\* (variant) integration without the column filter
IntegrateUnfiltered(step2, customer, names) == Ok(ConcatFrames(customer, step2))
\* the body of integrate_supplier_data (src/onedot_utils.py:359-368)
Integrate(step2, customer, names) ==
    LET filtered == Project(step2, names)
    IN IF filtered.err # None THEN filtered
       ELSE Ok(ConcatFrames(customer, filtered.df))

(***************************************************************************)
(* The customer (target) spreadsheet.                                      *)
(***************************************************************************)
\* the columns the normalizer prepares, as its comments number them
\* (src/onedot_utils.py:132-321)
TargetColumns ==
    <<"carType", "color", "condition", "currency", "drive", "city", "country",
      "make", "manufacture_year", "mileage", "mileage_unit", "model",
      "model_variant", "price_on_request", "type", "zip", "manufacture_month",
      "fuel_consumption_unit">>
\* the column lists a target spreadsheet can have: the full one, and one with
\* a column the normalizer does not prepare
TargetSchemas == {TargetColumns, <<"make", "price">>}
\* the cells of the i-th target row
TargetValues == <<"t1", "t2", "t3">>
\* the target spreadsheets: up to MaxTargetRows rows
TargetFrames ==
    {DataFrame(cols, RangeIndex(n),
               [i \in 1..n |-> [c \in Range(cols) |-> TargetValues[i]]]) :
        cols \in TargetSchemas, n \in 0..MaxTargetRows}

(***************************************************************************)
(* main (src/run.py:15-109).                                               *)
(***************************************************************************)
VARIABLES
    pc,                 \* the statement of main that runs next
    heap,               \* the dataframe objects: object name -> dataframe
    customer_df,        \* main's names: the object each is bound to, or None
    customer_col_names, \* the target's column labels
    car_df,             \* the supplier file as read_json loaded it
    step1_df,
    preprocessed_data,
    step2_df,
    normalized_data,
    integrated_data,
    err,                \* the exception that ended the run, or None
    output,             \* the three sheets written, or None
    recall,             \* the outcome of a repeated normalize call, or None
    log                 \* the progress lines printed so far

vars ==
    <<pc, heap, customer_df, customer_col_names, car_df, step1_df,
      preprocessed_data, step2_df, normalized_data, integrated_data, err,
      output, recall, log>>

Init ==
    /\ pc = "import_target"
    /\ heap = <<>>
    /\ customer_df = None
    /\ customer_col_names = <<>>
    /\ car_df = <<>>
    /\ step1_df = None
    /\ preprocessed_data = None
    /\ step2_df = None
    /\ normalized_data = None
    /\ integrated_data = None
    /\ err = None
    /\ output = None
    /\ recall = None
    /\ log = <<>>

\* the progress lines of a run, in the order a complete run prints them:
\* src/run.py:53, src/onedot_utils.py:84, 118, 329, 356, 366, 505,
\* src/run.py:108
ProgressLines ==
    <<"Step 0 - Preliminary check",
      "Step 1 - Preprocessing",
      "Step 2 - Normalization",
      "Supplier data adapted",
      "Step 3 -Integration",
      "Datasets concatenated.",
      "Worksheet created and saved",
      "DONE">>
\* print(line)
Printed(lines, line) == Append(lines, line)

\* a new object
Allocate(h, name, df) == h @@ (name :> df)
\* (variant) the statements work on a private copy of the frame
WriteBackToCopy(h, name, df) == h
\* statements on the frame an object holds change that object
WriteBack(h, name, df) == [h EXCEPT ![name] = df]
\* DataFrame.copy(deep=True)
DeepCopy(h, name, source) == Allocate(h, name, h[source])

\* customer_df = import_target(...); customer_col_names = ... (src/run.py:46-49)
ImportTarget ==
    /\ pc = "import_target"
    /\ \E readable \in BOOLEAN, target \in TargetFrames :
        IF readable
        THEN /\ heap' = Allocate(heap, "target", target)
             /\ customer_df' = "target"
             /\ customer_col_names' = target.columns
             /\ log' = Printed(log, "Step 0 - Preliminary check")
             /\ pc' = "preprocess"
             /\ err' = err
        ELSE /\ err' = "IOError"
             /\ pc' = "aborted"
             /\ UNCHANGED <<heap, customer_df, customer_col_names, log>>
    /\ UNCHANGED <<car_df, step1_df, preprocessed_data, step2_df, normalized_data,
                   integrated_data, output, recall>>

\* step1_df = preprocessing_supplier_data(...) (src/run.py:64)
Preprocess ==
    /\ pc = "preprocess"
    /\ \E readable \in BOOLEAN, file \in SupplierFiles :
        IF ~readable
        THEN /\ err' = "IOError"
             /\ pc' = "aborted"
             /\ UNCHANGED <<heap, car_df, step1_df, log>>
        ELSE /\ car_df' = file
             /\ IF HasDuplicateEntries(file)
                THEN /\ err' = "ValueError"
                     /\ pc' = "aborted"
                     /\ UNCHANGED <<heap, step1_df, log>>
                ELSE /\ heap' = Allocate(heap, "pivoted", Pivot(file))
                     /\ step1_df' = "pivoted"
                     /\ log' = Printed(log, "Step 1 - Preprocessing")
                     /\ pc' = "copy_preprocessed"
                     /\ err' = err
    /\ UNCHANGED <<customer_df, customer_col_names, preprocessed_data, step2_df,
                   normalized_data, integrated_data, output, recall>>

\* (variant) preprocessed_data = step1_df: a second name for the object, no copy
CopyPreprocessedByReference ==
    /\ pc = "copy_preprocessed"
    /\ preprocessed_data' = step1_df
    /\ pc' = "normalize"
    /\ UNCHANGED <<heap, customer_df, customer_col_names, car_df, step1_df, step2_df,
                   normalized_data, integrated_data, err, output, recall, log>>
\* preprocessed_data = step1_df.copy(deep=True) (src/run.py:67)
CopyPreprocessed ==
    /\ pc = "copy_preprocessed"
    /\ heap' = DeepCopy(heap, "preprocessed", step1_df)
    /\ preprocessed_data' = "preprocessed"
    /\ pc' = "normalize"
    /\ UNCHANGED <<customer_df, customer_col_names, car_df, step1_df, step2_df,
                   normalized_data, integrated_data, err, output, recall, log>>

\* a normalize call that works on a copy of its argument and returns the copy
NormalizeCallOnCopy ==
    /\ pc = "normalize"
    /\ LET r == Normalize(heap[step1_df])
       IN IF r.err = None
          THEN /\ heap' = Allocate(heap, "adapted", r.df)
               /\ step2_df' = "adapted"
               /\ log' = Printed(Printed(log, "Step 2 - Normalization"),
                                  "Supplier data adapted")
               /\ pc' = "copy_normalized"
               /\ err' = err
          ELSE /\ err' = r.err
               /\ log' = Printed(log, "Step 2 - Normalization")
               /\ pc' = "aborted"
               /\ UNCHANGED <<heap, step2_df>>
    /\ UNCHANGED <<customer_df, customer_col_names, car_df, step1_df,
                   preprocessed_data, normalized_data, integrated_data, output, recall>>
\* a normalize call whose exception is swallowed: main carries on
NormalizeCallCarryOn ==
    /\ pc = "normalize"
    /\ LET r == Normalize(heap[step1_df])
       IN /\ heap' = WriteBack(heap, step1_df, r.df)
          /\ step2_df' = step1_df
          /\ err' = r.err
          /\ log' = IF r.err = None
                     THEN Printed(Printed(log, "Step 2 - Normalization"),
                                  "Supplier data adapted")
                     ELSE Printed(log, "Step 2 - Normalization")
          /\ pc' = "copy_normalized"
    /\ UNCHANGED <<customer_df, customer_col_names, car_df, step1_df,
                   preprocessed_data, normalized_data, integrated_data, output, recall>>
\* step2_df = normalize_supplier_data(step1_df, ...) (src/run.py:79-80)
NormalizeCall ==
    /\ pc = "normalize"
    /\ LET r == Normalize(heap[step1_df])
       IN /\ heap' = WriteBack(heap, step1_df, r.df)
          /\ IF r.err = None
             THEN /\ step2_df' = step1_df
                  /\ log' = Printed(Printed(log, "Step 2 - Normalization"),
                                     "Supplier data adapted")
                  /\ pc' = "copy_normalized"
                  /\ err' = err
             ELSE /\ err' = r.err
                  /\ log' = Printed(log, "Step 2 - Normalization")
                  /\ pc' = "aborted"
                  /\ step2_df' = step2_df
    /\ UNCHANGED <<customer_df, customer_col_names, car_df, step1_df,
                   preprocessed_data, normalized_data, integrated_data, output, recall>>

\* normalized_data = step2_df.copy(deep=True) (src/run.py:83)
CopyNormalized ==
    /\ pc = "copy_normalized"
    /\ heap' = DeepCopy(heap, "normalized", step2_df)
    /\ normalized_data' = "normalized"
    /\ pc' = "integrate"
    /\ UNCHANGED <<customer_df, customer_col_names, car_df, step1_df,
                   preprocessed_data, step2_df, integrated_data, err, output, recall,
                   log>>

\* integrated_data = integrate_supplier_data(step2_df, ...) (src/run.py:95-96)
IntegrateCall ==
    /\ pc = "integrate"
    /\ LET r == Integrate(heap[step2_df], heap[customer_df], customer_col_names)
       IN IF r.err = None
          THEN /\ heap' = Allocate(heap, "integrated", r.df)
               /\ integrated_data' = "integrated"
               /\ log' = Printed(Printed(log, "Step 3 -Integration"),
                                  "Datasets concatenated.")
               /\ pc' = "write"
               /\ err' = err
          ELSE /\ err' = r.err
               /\ log' = Printed(log, "Step 3 -Integration")
               /\ pc' = "aborted"
               /\ UNCHANGED <<heap, integrated_data>>
    /\ UNCHANGED <<customer_df, customer_col_names, car_df, step1_df,
                   preprocessed_data, step2_df, normalized_data, output, recall>>

\* write_excel_output(preprocessed_data, normalized_data, integrated_data)
\* (src/run.py:103-109)
WriteOutput ==
    /\ pc = "write"
    /\ output' = <<heap[preprocessed_data], heap[normalized_data], heap[integrated_data]>>
    /\ log' = Printed(Printed(log, "Worksheet created and saved"), "DONE")
    /\ pc' = "done"
    /\ UNCHANGED <<heap, customer_df, customer_col_names, car_df, step1_df,
                   preprocessed_data, step2_df, normalized_data, integrated_data,
                   err, recall>>

Next ==
    \/ ImportTarget
    \/ Preprocess
    \/ CopyPreprocessed
    \/ NormalizeCall
    \/ CopyNormalized
    \/ IntegrateCall
    \/ WriteOutput

Spec == Init /\ [][Next]_vars

\* a caller that hands the frame normalize_supplier_data returned to
\* normalize_supplier_data once more, instead of going on with main
NormalizeAgain ==
    /\ pc = "copy_normalized"
    /\ LET r == Normalize(heap[step2_df])
       IN /\ heap' = WriteBack(heap, step2_df, r.df)
          /\ recall' = [err |-> r.err,
                        returned |-> IF r.err = None THEN step2_df ELSE None]
          /\ log' = IF r.err = None
                     THEN Printed(Printed(log, "Step 2 - Normalization"),
                                  "Supplier data adapted")
                     ELSE Printed(log, "Step 2 - Normalization")
    /\ pc' = "recalled"
    /\ UNCHANGED <<customer_df, customer_col_names, car_df, step1_df,
                   preprocessed_data, step2_df, normalized_data, integrated_data,
                   err, output>>

NextTwice == Next \/ NormalizeAgain

SpecTwice == Init /\ [][NextTwice]_vars

(***************************************************************************)
(* Properties.                                                             *)
(***************************************************************************)
\* the frame an object of main holds
Frame(name) == heap[name]
\* the identity tuples of the lines read
InputIdentities == {[f \in Range(IdentityFields) |-> car_df[i][f]] : i \in 1..Len(car_df)}
\* the attribute names of the lines read
InputAttributeNames == {car_df[i]["Attribute Names"] : i \in 1..Len(car_df)}
\* no (identity, attribute name) pair is on two lines
PairsOccurOnce ==
    \A i, j \in 1..Len(car_df) :
        i # j => \E f \in Range(IdentityFields) \cup {"Attribute Names"} :
                    car_df[i][f] # car_df[j][f]
\* the identity tuple of a row of the reshaped frame
RowIdentity(row) == [f \in Range(IdentityFields) |-> row[f]]
\* preprocessing_supplier_data has just returned
Reshaped == pc = "copy_preprocessed"

\* C1: for a file in which each (identity, attribute name) pair occurs at
\* most once, preprocessing_supplier_data returns a frame, and the frame has
\* exactly one row per identity tuple of the file, no row for another
\* identity, hence as many rows as the file has distinct identity tuples.
C1_OneRowPerIdentity ==
    (car_df # <<>> /\ PairsOccurOnce) =>
        /\ step1_df # None
        /\ Reshaped =>
            LET rows == Frame(step1_df).rows
            IN /\ \A k \in InputIdentities :
                    Cardinality({i \in 1..Len(rows) : RowIdentity(rows[i]) = k}) = 1
               /\ \A i \in 1..Len(rows) : RowIdentity(rows[i]) \in InputIdentities
               /\ Len(rows) = Cardinality(InputIdentities)
\* two cars that share their ID, reshaped from more lines than cars
C1_Witness ==
    /\ Reshaped
    /\ PairsOccurOnce
    /\ Len(Frame(step1_df).rows) = 2
    /\ Frame(step1_df).rows[1]["ID"] = Frame(step1_df).rows[2]["ID"]
    /\ Len(car_df) > 2

\* C2: the columns of the frame preprocessing_supplier_data returns are the
\* six identity fields and every attribute name of the file, each once, and
\* nothing else (neither "Attribute Names" nor "Attribute Values"); every row
\* has a cell for each of them.
C2_ColumnSet ==
    Reshaped =>
        LET df == Frame(step1_df)
        IN /\ Range(df.columns) = Range(IdentityFields) \cup InputAttributeNames
           /\ Len(df.columns) = Cardinality(Range(df.columns))
           /\ "Attribute Names" \notin Range(df.columns)
           /\ "Attribute Values" \notin Range(df.columns)
           /\ \A i \in 1..Len(df.rows) : DOMAIN df.rows[i] = Range(df.columns)
\* a file of two cars, one of which lacks an attribute the other has
C2_Witness ==
    /\ Reshaped
    /\ Len(Frame(step1_df).rows) = 2
    /\ \E a \in InputAttributeNames :
        /\ Frame(step1_df).rows[1][a] = NaN
        /\ Frame(step1_df).rows[2][a] # NaN

\* integrate_supplier_data has just returned
Integrated == pc = "write"
\* normalize_supplier_data has just returned to main
Normalized == pc = "copy_normalized"
\* the frame has these columns in this order, and every row a cell for each
HasExactlyColumns(df, names) ==
    /\ df.columns = names
    /\ \A i \in 1..Len(df.rows) : DOMAIN df.rows[i] = Range(names)

\* C3: when the normalized frame has all target columns, integration returns
\* a frame, and the frame integrate_supplier_data returns has exactly the
\* target's columns in the target's order: no other normalized column
\* appears in it.
C3_ColumnExactness ==
    /\ Integrated =>
        /\ HasExactlyColumns(Frame(integrated_data), customer_col_names)
        /\ \A c \in Range(Frame(step2_df).columns) \ Range(customer_col_names) :
              ~HasColumn(Frame(integrated_data), c)
    /\ (pc = "aborted" /\ normalized_data # None) =>
           ~(Range(customer_col_names) \subseteq Range(Frame(step2_df).columns))
\* an integration of target rows and supplier rows whose normalized frame
\* has columns the target lacks
C3_Witness ==
    /\ Integrated
    /\ Len(Frame(customer_df).rows) > 0
    /\ Len(Frame(step2_df).rows) > 1
    /\ \E c \in Range(Frame(step2_df).columns) : c \notin Range(customer_col_names)

\* C4: the integrated frame has target rows + supplier rows many rows: the
\* target's rows first, in their order, then the supplier's rows, in their
\* order; its row index is 0, 1, ..., n-1.
C4_RowsAppended ==
    Integrated =>
        LET out == Frame(integrated_data)
            target == Frame(customer_df)
            supplier == Frame(step2_df)
            n == Len(target.rows)
        IN /\ Len(out.rows) = n + Len(supplier.rows)
           /\ \A i \in 1..n : out.rows[i] = target.rows[i]
           /\ \A j \in 1..Len(supplier.rows) :
                \A c \in Range(customer_col_names) :
                    out.rows[n + j][c] = supplier.rows[j][c]
           /\ Len(out.index) = Len(out.rows)
           /\ \A i \in 1..Len(out.index) : out.index[i] = i - 1
\* two target rows followed by two supplier rows
C4_Witness ==
    /\ Integrated
    /\ Len(Frame(customer_df).rows) = 2
    /\ Len(Frame(step2_df).rows) = 2
    /\ Len(Frame(integrated_data).rows) = 4

\* the value a table with the fallback "Other" gives a raw cell
MappedOrOther(table, raw) == IF raw \in DOMAIN table THEN table[raw] ELSE "Other"

\* C5: after normalize_supplier_data, carType and color of every row are the
\* canonical value of the row's raw BodyTypeText / BodyColorText, or "Other"
\* when the raw value (a missing one included) is no key of the table; they
\* are never missing.
C5_CarTypeAndColor ==
    Normalized =>
        LET raw == Frame(preprocessed_data).rows
            out == Frame(step2_df).rows
        IN \A i \in 1..Len(out) :
            /\ out[i]["carType"] = MappedOrOther(bodyTypeText_to_carType, raw[i]["BodyTypeText"])
            /\ out[i]["color"] = MappedOrOther(bodyColorText_to_color, raw[i]["BodyColorText"])
            /\ out[i]["carType"] # NaN
            /\ out[i]["color"] # NaN
\* a row without a body type next to a row whose body type and colour the
\* tables map
C5_Witness ==
    /\ Normalized
    /\ \E i \in 1..Len(Frame(step2_df).rows) :
        /\ Frame(preprocessed_data).rows[i]["BodyTypeText"] = NaN
        /\ Frame(step2_df).rows[i]["carType"] = "Other"
    /\ \E i \in 1..Len(Frame(step2_df).rows) :
        /\ Frame(preprocessed_data).rows[i]["BodyTypeText"] = "Limousine"
        /\ Frame(step2_df).rows[i]["carType"] = "Custom"
        /\ Frame(step2_df).rows[i]["color"] = "Blue"

\* C6 as stated: after normalize_supplier_data the condition of every row is
\* the canonical value of its raw ConditionTypeText, or "Other" when the raw
\* value is not in the condition table; it is never missing.
C6_ConditionOrOther ==
    Normalized =>
        LET raw == Frame(preprocessed_data).rows
            out == Frame(step2_df).rows
        IN \A i \in 1..Len(out) :
            /\ out[i]["condition"] =
                 MappedOrOther(conditionTypeText_to_condition, raw[i]["ConditionTypeText"])
            /\ out[i]["condition"] # NaN
\* C6 as amended: after normalize_supplier_data the condition of every row
\* is the canonical value ("Used" or "New") of its raw ConditionTypeText, or
\* missing when the raw value (a missing one included) is not in the
\* condition table; it is never "Other" and never an unmapped raw value.
C6_ConditionOrMissing ==
    Normalized =>
        LET raw == Frame(preprocessed_data).rows
            out == Frame(step2_df).rows
        IN \A i \in 1..Len(out) :
            /\ out[i]["condition"] =
                 (IF raw[i]["ConditionTypeText"] \in DOMAIN conditionTypeText_to_condition
                  THEN conditionTypeText_to_condition[raw[i]["ConditionTypeText"]]
                  ELSE NaN)
            /\ out[i]["condition"] \in {"Used", "New", NaN}
\* a row whose raw condition the table lacks, left without a condition
C6_Witness ==
    /\ Normalized
    /\ \E i \in 1..Len(Frame(step2_df).rows) :
        /\ Frame(preprocessed_data).rows[i]["ConditionTypeText"] = "Unfallwagen"
        /\ Frame(step2_df).rows[i]["condition"] = NaN

\* C7: after normalize_supplier_data has run to completion, the type of a
\* row is "Other" exactly when its raw MakeText is HARLEY-DAVIDSON or its raw
\* BodyTypeText is Sattelschlepper, and "car" otherwise: the title-casing of
\* the make and the remap of the body type, which come later, do not change
\* it.
C7_TypeFromRawValues ==
    Normalized =>
        LET raw == Frame(preprocessed_data).rows
            out == Frame(step2_df).rows
        IN \A i \in 1..Len(out) :
            out[i]["type"] =
                (IF \/ raw[i]["MakeText"] = S_HARLEY_DAVIDSON
                    \/ raw[i]["BodyTypeText"] = "Sattelschlepper"
                 THEN "Other" ELSE "car")
\* a Sattelschlepper that is no HARLEY-DAVIDSON: its body type was remapped
\* to "Other" after the type was decided
C7_Witness ==
    /\ Normalized
    /\ \E i \in 1..Len(Frame(step2_df).rows) :
        /\ Frame(preprocessed_data).rows[i]["BodyTypeText"] = "Sattelschlepper"
        /\ Frame(preprocessed_data).rows[i]["MakeText"] # S_HARLEY_DAVIDSON
        /\ Frame(step2_df).rows[i]["type"] = "Other"
        /\ Frame(step2_df).rows[i]["carType"] = "Other"

\* the make the casing rule gives a raw make; the short-name rule looks at
\* the whole name
CasedMake(raw) ==
    LET titled == StrTitle(raw)
        cased == IF Len(titled) < 4 THEN StrUpper(titled) ELSE titled
    IN CASE cased = S_Bmw_Alpina -> S_Alpina
         [] cased = S_Mclaren -> S_McLaren
         [] cased = S_Mini -> S_MINI
         [] cased = S_RUF -> S_Ruf
         [] OTHER -> cased
\* the makes the specification names, a name of four characters and a name
\* of two words
MakeExamples ==
    (S_mercedes_benz :> S_Mercedes_Benz) @@ (S_bmw :> S_BMW) @@ (S_Mini :> S_MINI)
    @@ (S_Mclaren :> S_McLaren) @@ (S_BMW_ALPINA :> S_Alpina) @@ (S_RUF :> S_Ruf)
    @@ (S_OPEL :> <<"O","p","e","l">>)
    @@ (S_DS_AUTOMOBILES :> <<"D","s"," ","A","u","t","o","m","o","b","i","l","e","s">>)

C9_RowsKept ==
    Normalized =>
        LET before == Frame(preprocessed_data)
            after == Frame(step2_df)
        IN /\ Len(after.rows) = Len(before.rows)
           /\ after.index = before.index
           /\ \A i \in 1..Len(after.rows) :
                /\ after.rows[i]["ID"] = before.rows[i]["ID"]
                /\ after.rows[i]["TypeName"] = before.rows[i]["TypeName"]
                /\ after.rows[i]["TypeNameFull"] = before.rows[i]["TypeNameFull"]
                /\ after.rows[i]["model"] = before.rows[i]["ModelText"]
                /\ after.rows[i]["model_variant"] = before.rows[i]["ModelTypeText"]
                /\ after.rows[i]["city"] = before.rows[i]["City"]
\* two rows of different IDs and cities, normalized
C9_Witness ==
    /\ Normalized
    /\ Len(Frame(step2_df).rows) = 2
    /\ Frame(step2_df).rows[1]["ID"] # Frame(step2_df).rows[2]["ID"]
    /\ Frame(step2_df).rows[1]["city"] # Frame(step2_df).rows[2]["city"]

\* C10: a second call of normalize_supplier_data on the frame a first call
\* normalized does not complete: it ends with a missing-column lookup
\* failure (KeyError) and returns no frame; the raw columns MakeText and
\* BodyTypeText are no longer in the frame, the first call renamed them.
C10_SecondCallFails ==
    pc = "recalled" =>
        /\ recall.err = "KeyError"
        /\ recall.returned = None
        /\ ~HasColumn(Frame(step2_df), "MakeText")
        /\ ~HasColumn(Frame(step2_df), "BodyTypeText")
        /\ HasColumn(Frame(step2_df), "make")
        /\ HasColumn(Frame(step2_df), "carType")
\* the second call has ended on a frame of two rows
C10_Witness ==
    /\ pc = "recalled"
    /\ recall.err = "KeyError"
    /\ Len(Frame(step2_df).rows) = 2

\* ---------------------------------------------------------------------------
\* Ownership of the frames handed from stage to stage
\* ---------------------------------------------------------------------------
\* the same columns, the same index and the same values
SameFrame(a, b) ==
    /\ a.columns = b.columns
    /\ a.index = b.index
    /\ a.rows = b.rows
\* the steps in which a transform function returns
ReshapeReturns == pc = "preprocess" /\ pc' = "copy_preprocessed"
NormalizeReturns == pc = "normalize" /\ pc' = "copy_normalized"
IntegrateReturns == pc = "integrate" /\ pc' = "write"
\* every object that existed before the step is the same after it
HeapKept == \A o \in DOMAIN heap : SameFrame(heap'[o], heap[o])

\* C11 as stated: each of preprocessing_supplier_data,
\* normalize_supplier_data and integrate_supplier_data leaves the frames it
\* receives unchanged and returns a new object, one that did not exist
\* before the call and is not its input.
C11_CopySemantics ==
    [][/\ ReshapeReturns => (step1_df' \notin DOMAIN heap /\ HeapKept)
       /\ NormalizeReturns =>
            /\ step2_df' \notin DOMAIN heap
            /\ step2_df' # step1_df
            /\ HeapKept
       /\ IntegrateReturns =>
            /\ integrated_data' \notin DOMAIN heap
            /\ integrated_data' # step2_df
            /\ HeapKept]_vars

\* C11, amended: preprocessing_supplier_data and integrate_supplier_data
\* return a new object and leave every existing frame unchanged;
\* normalize_supplier_data rewrites the frame it receives in place and returns
\* that same object, so step1_df and step2_df name one shared frame, which
\* after the call has the 'type' column and no longer the raw MakeText
\* column; the frames it did not receive (the target, the deep copy main took)
\* are unchanged.
C11_NormalizeInPlace ==
    [][/\ ReshapeReturns => (step1_df' \notin DOMAIN heap /\ HeapKept)
       /\ NormalizeReturns =>
            /\ step2_df' = step1_df
            /\ DOMAIN heap' = DOMAIN heap
            /\ ~SameFrame(heap'[step1_df], heap[step1_df])
            /\ HasColumn(heap[step1_df], "MakeText")
            /\ ~HasColumn(heap[step1_df], "type")
            /\ ~HasColumn(heap'[step1_df], "MakeText")
            /\ HasColumn(heap'[step1_df], "type")
            /\ \A o \in DOMAIN heap \ {step1_df} : SameFrame(heap'[o], heap[o])
       /\ IntegrateReturns =>
            /\ integrated_data' \notin DOMAIN heap
            /\ integrated_data' # step2_df
            /\ HeapKept]_vars
\* normalize has returned: step2_df and step1_df are one object of two rows,
\* rewritten, while the deep copy still has the raw columns
C11_Witness ==
    /\ Normalized
    /\ step2_df = step1_df
    /\ Len(Frame(step1_df).rows) = 2
    /\ HasColumn(Frame(step1_df), "type")
    /\ ~HasColumn(Frame(step1_df), "MakeText")
    /\ HasColumn(Frame(preprocessed_data), "MakeText")
    /\ ~HasColumn(Frame(preprocessed_data), "type")

\* ---------------------------------------------------------------------------
\* The order of the stages and the end of a run
\* ---------------------------------------------------------------------------
IsPrefix(s, t) == Len(s) <= Len(t) /\ \A i \in 1..Len(s) : s[i] = t[i]
\* the positions of main, in the order of its statements
MainOrder ==
    <<"import_target", "preprocess", "copy_preprocessed", "normalize",
      "copy_normalized", "integrate", "write", "done">>
Follows(q, p) ==
    \E i \in 1..(Len(MainOrder) - 1) : MainOrder[i] = p /\ MainOrder[i + 1] = q
\* a cell of FirstRegYear, Km or FirstRegMonth that holds a text, not a number
NonNumericValue(df) ==
    \E c \in {"FirstRegYear", "Km", "FirstRegMonth"} :
        /\ HasColumn(df, c)
        /\ \E i \in 1..Len(df.rows) :
              df.rows[i][c] # NaN /\ df.rows[i][c] \notin DOMAIN Numerals
\* a raw column normalize reads is not in the frame
MissingRawColumn(df) == \E a \in AttrNames : ~HasColumn(df, a)
\* a column of the target is not in the frame
MissingTargetColumn(df) ==
    \E i \in 1..Len(customer_col_names) : ~HasColumn(df, customer_col_names[i])

\* C12: in every run of main the stages run in the order reshape, normalize,
\* integrate, write, each after the one before it has completed: a step goes
\* to the next statement of main or ends the run, and the progress lines
\* printed are a beginning of the lines of a complete run, none twice.  A
\* stage that meets a fatal error (a missing column, a text in FirstRegYear,
\* Km or FirstRegMonth, an unreadable input) ends the run: the error is
\* recorded exactly when the run is aborted, nothing happens after an abort
\* (no later stage, no retry), and the spreadsheet is written only by a run
\* that printed all the lines before it and had no error.
C12_StagesInOrder ==
    [][/\ pc \notin {"aborted", "done"}
       /\ pc' = "aborted" \/ Follows(pc', pc)
       /\ IsPrefix(log, log')
       /\ IsPrefix(log', ProgressLines)
       /\ (err' # None) <=> (pc' = "aborted")
       /\ pc' # "done" => output' = None
       /\ pc' = "aborted" =>
            /\ err' \in {"IOError", "ValueError", "KeyError"}
            /\ \A i \in 1..Len(log') : log'[i] # "Worksheet created and saved"
       /\ pc' = "done" =>
            /\ pc = "write"
            /\ err' = None
            /\ log' = ProgressLines
       /\ (pc = "normalize" /\ NonNumericValue(heap[step1_df])) =>
            (pc' = "aborted" /\ err' \in {"ValueError", "KeyError"})
       /\ (pc = "normalize" /\ MissingRawColumn(heap[step1_df])) =>
            (pc' = "aborted" /\ err' = "KeyError")
       /\ (pc = "integrate" /\ MissingTargetColumn(heap[step2_df])) =>
            (pc' = "aborted" /\ err' = "KeyError")]_vars
\* a run that reshaped two cars and was aborted in normalize by a text in
\* FirstRegMonth: the last line printed is the first of step 2, nothing is written
C12_Witness ==
    /\ pc = "aborted"
    /\ err = "ValueError"
    /\ output = None
    /\ log = SubSeq(ProgressLines, 1, 3)
    /\ Len(Frame(preprocessed_data).rows) = 2
    /\ \E i \in 1..2 : Frame(preprocessed_data).rows[i]["FirstRegMonth"] = "null"

\* ---------------------------------------------------------------------------
\* The three sheets handed to write_excel_output
\* ---------------------------------------------------------------------------
Completed == pc = "done"

\* C13: in a completed run the three frames handed to write_excel_output are
\* the outputs of the three stages.  The first is the reshaped frame as the
\* reshaper returned it: the pivot of the file, with the raw columns MakeText
\* and BodyTypeText and without the 'type' column, although the reshaped
\* object itself has been rewritten by normalize since.  The second is the
\* frame normalize returned, and the object is still that frame after
\* integrate.  The third is the frame integrate returned.
C13_SheetsAreStageOutputs ==
    Completed =>
        LET reshaped == Pivot(car_df)
            normalized == Normalize(Pivot(car_df))
            integrated == Integrate(Normalize(Pivot(car_df)).df, Frame(customer_df),
                                    customer_col_names)
        IN /\ Len(output) = 3
           /\ SameFrame(output[1], reshaped)
           /\ HasColumn(output[1], "MakeText")
           /\ HasColumn(output[1], "BodyTypeText")
           /\ ~HasColumn(output[1], "type")
           /\ ~SameFrame(output[1], Frame(step1_df))
           /\ normalized.err = None
           /\ SameFrame(output[2], normalized.df)
           /\ SameFrame(output[2], Frame(step2_df))
           /\ integrated.err = None
           /\ SameFrame(output[3], integrated.df)
           /\ SameFrame(output[3], Frame(integrated_data))
\* a completed run on two cars and a target with rows: the first sheet has a
\* raw make that the second sheet shows recased
C13_Witness ==
    /\ Completed
    /\ Len(output[1].rows) = 2
    /\ Len(output[2].rows) = 2
    /\ \E i \in 1..2 : output[1].rows[i]["MakeText"] # output[2].rows[i]["make"]
    /\ Len(Frame(customer_df).rows) > 0
    /\ Len(output[3].rows) = Len(Frame(customer_df).rows) + 2

====
